---- MODULE Spec2Model ----
(***************************************************************************)
(* rng-with-intention: RngWithIntention.draw / drawMultiple               *)
(* (src/src/RngWithIntention.js) on top of the cross-platform crypto      *)
(* helpers randomBytes / sha256 / bytesToHex / readUInt32BE and the       *)
(* module-level probe cache (src/src/crypto-polyfill.js).                  *)
(*                                                                         *)
(* JavaScript is single-threaded: an action of this model is one          *)
(* run-to-completion segment of an async function, from one suspension    *)
(* point (await) to the next.  Strings are sequences of one-character     *)
(* strings.  SHA-256 is a lazily sampled function from seed strings to    *)
(* digests (only the four digest bytes that draw reads are kept).         *)
(***************************************************************************)
EXTENDS Integers, Sequences, FiniteSets, TLC

\* ---------------------------------------------------------------- bounds
MaxCalls == 1       \* Rng calls in a behaviour, under any configuration
MaxRepeat == 2      \* Rng calls in a behaviour, under the deterministic one
MaxDirect == 1      \* direct calls of the exported randomBytes
MaxMax == 2         \* largest valid max offered to a call
MaxCount == 2       \* largest valid count offered to drawMultiple
MaxClock == 1       \* the millisecond clock runs over 0..MaxClock

\* ------------------------------------------------------ program constants
EntropySize == 16   \* randomBytes(16)
RetryFactor == 2    \* attempts < max * 2

\* ------------------------------------------------------------ JS values
\* A JavaScript value: string, number (a rational n/d, d in {1,2}),
\* undefined, or a pending Promise object.
JS(t, s, n, d) == [t |-> t, s |-> s, n |-> n, d |-> d]
Str(s) == JS("string", s, 0, 1)
Num(n) == JS("number", <<>>, n, 1)
Half(n) == JS("number", <<>>, n, 2)
Undefined == JS("undefined", <<>>, 0, 1)
PromiseObj == JS("promise", <<>>, 0, 1)
Bytes(b) == JS("bytes", b, 0, 1)

\* Number.isInteger(v)
IsInteger(v) == v.t = "number" /\ v.d = 1
\* a > b on JS values; a comparison with undefined (NaN) is false
Greater(a, b) == a.t = "number" /\ b.t = "number" /\ a.n * b.d > b.n * a.d
\* !v
Falsy(v) ==
  \/ v.t = "undefined"
  \/ v.t = "string" /\ v.s = <<>>
  \/ v.t = "number" /\ v.n = 0

DigitChar(k) == <<"0", "1", "2", "3", "4", "5", "6", "7", "8", "9">>[k + 1]
RECURSIVE NatToString(_)
NatToString(n) ==
  IF n < 10 THEN <<DigitChar(n)>>
  ELSE NatToString(n \div 10) \o <<DigitChar(n % 10)>>
\* String(v), as a template literal converts its operands
JsToString(v) ==
  CASE v.t = "string" -> v.s
    [] v.t = "undefined" -> <<"u", "n", "d", "e", "f", "i", "n", "e", "d">>
    [] v.t = "number" /\ v.d = 1 /\ v.n >= 0 -> NatToString(v.n)
    [] v.t = "number" /\ v.d = 1 /\ v.n < 0 -> <<"-">> \o NatToString(-v.n)
    [] v.t = "number" /\ v.d = 2 /\ v.n >= 0 ->
         NatToString(v.n \div 2) \o <<".", "5">>
    [] v.t = "number" /\ v.d = 2 /\ v.n < 0 ->
         <<"-">> \o NatToString((-v.n) \div 2) \o <<".", "5">>
    [] OTHER -> <<"[", "o", "b", "j", "e", "c", "t", "]">>

\* Array.prototype.join
RECURSIVE Join(_, _)
Join(parts, sep) ==
  IF parts = <<>> THEN <<>>
  ELSE IF Len(parts) = 1 THEN parts[1]
  ELSE parts[1] \o sep \o Join(Tail(parts), sep)

Delim == <<":", ":">>

\* ------------------------------------------------------ crypto-polyfill
HexDigit(k) ==
  <<"0", "1", "2", "3", "4", "5", "6", "7", "8", "9",
    "a", "b", "c", "d", "e", "f">>[k + 1]
\* b.toString(16).padStart(2, '0')
HexByte(b) == <<HexDigit(b \div 16), HexDigit(b % 16)>>
\* Array.from(v): the elements of a byte array; a Promise is not iterable
\* and has no length, so Array.from gives the empty array
ArrayFrom(v) == IF v.t = "bytes" THEN v.s ELSE <<>>
bytesToHex(v) ==
  Join([k \in 1..Len(ArrayFrom(v)) |-> HexByte(ArrayFrom(v)[k])], <<>>)

\* A number hi * 2^16 + lo as two limbs, 0 <= lo < 2^16; an unsigned 32-bit
\* value has 0 <= hi < 2^16, a negative number has hi < 0
U32(hi, lo) == [hi |-> hi, lo |-> lo]
\* b << k for a byte b: the low 32 bits of b * 2^k read as a signed
\* (two's complement) 32-bit integer
ShiftLeft(b, k) ==
  LET hi == IF k >= 16 THEN (b * 2^(k - 16)) % 65536 ELSE (b * 2^k) \div 65536
      lo == IF k >= 16 THEN 0 ELSE (b * 2^k) % 65536
  IN U32(IF hi >= 32768 THEN hi - 65536 ELSE hi, lo)
\* v >>> 0: ToUint32, the value modulo 2^32
ToUint32(v) == U32(v.hi % 65536, v.lo)
\* a + b on numbers (exact in double precision below 2^53)
Plus(a, b) ==
  U32(a.hi + b.hi + ((a.lo + b.lo) \div 65536), (a.lo + b.lo) % 65536)

\* readUInt32BE adding the shifted bytes without `>>> 0`
readUInt32BESigned(bytes, offset) ==
  Plus(Plus(Plus(ShiftLeft(bytes[offset + 1], 24),
                 ShiftLeft(bytes[offset + 2], 16)),
            ShiftLeft(bytes[offset + 3], 8)),
       ShiftLeft(bytes[offset + 4], 0))

\* ((b0 << 24) >>> 0) + ((b1 << 16) >>> 0) + ((b2 << 8) >>> 0) + (b3 >>> 0)
readUInt32BE(bytes, offset) ==
  Plus(Plus(Plus(ToUint32(ShiftLeft(bytes[offset + 1], 24)),
                 ToUint32(ShiftLeft(bytes[offset + 2], 16))),
            ToUint32(ShiftLeft(bytes[offset + 3], 8))),
       ToUint32(ShiftLeft(bytes[offset + 4], 0)))
\* v % max for a positive integer max
ModU32(v, max) == ((v.hi % max) * (65536 % max) + (v.lo % max)) % max

\* new Date().toISOString() for a clock value below one second
toISOString(ms) ==
  <<"1", "9", "7", "0", "-", "0", "1", "-", "0", "1", "T",
    "0", "0", ":", "0", "0", ":", "0", "0", ".">>
  \o <<DigitChar(ms \div 100), DigitChar((ms \div 10) % 10), DigitChar(ms % 10)>>
  \o <<"Z">>

\* The digests SHA-256 may give a seed: first four bytes, high bit set,
\* enough consecutive values to reach every residue of every valid max
Digests == {<<128, 0, 0, k>> : k \in 0..(MaxMax - 1)}
\* What the platform's secure generator returns for the k-th request of
\* `size` bytes: fresh bytes, different from those of the request before
FreshBytes(k, size) == [j \in 1..size |-> (k * 37 + j) % 256]

\* ---------------------------------------------------------------- inputs
\* a text, the empty text, a missing argument and a value that is not text
IntentionInputs == {Str(<<"x">>), Str(<<>>), Undefined, Num(5)}
\* -1, 0, the valid values, 1.5 and a missing argument
MaxInputs == {Num(n) : n \in (-1)..MaxMax} \cup {Half(3), Undefined}
CountInputs == {Num(n) : n \in (-1)..MaxCount} \cup {Half(3), Undefined}
\* the arguments the caller passes (the same in every call of a behaviour)
ArgInputs ==
  [intention : IntentionInputs, max : MaxInputs, count : CountInputs,
   allowDuplicates : BOOLEAN]
\* the options object given to the constructor: each key present or not
OptionInputs ==
  {o \in [{"includeTimestamp", "includeEntropy"} -> {"absent", "true", "false"}] : TRUE}
Platforms ==
  [node : {"absent", "fails", "ok"}, webRandom : BOOLEAN, webSubtle : BOOLEAN]

VARIABLES
  platform,                 \* what the runtime offers (fixed)
  args,                     \* the caller's arguments (fixed)
  given,                    \* the options object passed to the constructor
  nodeCrypto,               \* module-level cache: "null" or "module"
  nodeCryptoLoadAttempted,  \* module-level flag
  importState,              \* import('node:crypto'): "idle", "pending", "done"
  importCount,              \* how many times the dynamic import was started
  now,                      \* the clock value read last
  digestOf,                 \* SHA-256 on the seeds hashed so far
  options,                  \* this.options of the Rng instance in use
  frame,                    \* the Rng call in progress, or its result
  pending,                  \* suspended randomBytes calls (nothing awaits them)
  entropyLog,               \* the randomBytes promise of a draw that settled last
  backendLog,               \* backend each randomBytes / sha256 caller used
  drawLog,                  \* completed draw invocations
  calls,                    \* Rng calls made so far
  directs                   \* direct randomBytes calls made so far

vars ==
  <<platform, args, given, nodeCrypto, nodeCryptoLoadAttempted, importState, importCount,
    now, digestOf, options, frame, pending, entropyLog, backendLog,
    drawLog, calls, directs>>

NoResult ==
  [status |-> "none", error |-> "none", index |-> 0, indices |-> <<>>,
   timestamp |-> <<>>]

EmptyFrame ==
  [pc |-> "idle", op |-> "none",
   dIntention |-> <<>>, dMax |-> 0, dTimestamp |-> <<>>, seed |-> <<>>,
   crypto |-> "none", serial |-> 0,
   mTimestamp |-> <<>>, indices |-> <<>>, used |-> {}, i |-> 0,
   attempts |-> 0, index |-> 0, inRetry |-> FALSE, retried |-> <<>>,
   exhausted |-> FALSE, byPos |-> <<>>,
   count |-> 0, prevCount |-> 0, prevIndices |-> <<>>,
   nDraws |-> 0, nHashes |-> 0, nEntropy |-> 0,
   result |-> NoResult]

\* ------------------------------------------------------ crypto-polyfill
\* The module-level state a synchronous segment reads and writes
Shared ==
  [attempted |-> nodeCryptoLoadAttempted, importState |-> importState,
   importCount |-> importCount, pending |-> pending]

\* tryLoadNodeCrypto caching only a successful probe
tryLoadNodeCryptoUncachedFailure(sh) ==
  IF sh.attempted /\ (nodeCrypto # "null" \/ sh.importState = "pending")
    THEN [ret |-> nodeCrypto, sh |-> sh]
  ELSE IF platform.node = "absent"
    THEN [ret |-> "null", sh |-> [sh EXCEPT !.attempted = TRUE]]
    ELSE [ret |-> "await",
          sh |-> [sh EXCEPT !.attempted = TRUE,
                            !.importState = "pending",
                            !.importCount = sh.importCount + 1]]

\* tryLoadNodeCrypto() up to its first suspension: the value it returns
\* ("await" when the caller has to wait for the dynamic import) and the
\* module state it leaves
tryLoadNodeCrypto(sh) ==
  IF sh.attempted THEN [ret |-> nodeCrypto, sh |-> sh]
  ELSE IF platform.node = "absent"
    THEN [ret |-> "null", sh |-> [sh EXCEPT !.attempted = TRUE]]
    ELSE [ret |-> "await",
          sh |-> [sh EXCEPT !.attempted = TRUE,
                            !.importState = "pending",
                            !.importCount = sh.importCount + 1]]

\* what `await tryLoadNodeCrypto()` evaluates to once the caller resumes
Awaited(c) == IF c = "await" THEN nodeCrypto ELSE c

\* randomBytes after `await tryLoadNodeCrypto()`: the backend that serves
\* the call; with crypto null and no window.crypto.getRandomValues the
\* `else if` dereferences the local (null) crypto and throws
randomBytesBackend(c) ==
  IF c = "module" THEN "node"
  ELSE IF platform.webRandom THEN "web"
  ELSE "none"

\* sha256 after `await tryLoadNodeCrypto()`: the backend that serves it
sha256Backend(c) ==
  IF c = "module" THEN "node"
  ELSE IF platform.webSubtle THEN "web"
  ELSE "none"

\* randomBytes(size) up to its suspension: a pending promise
randomBytesCall(owner, serial, size, sh) ==
  LET r == tryLoadNodeCrypto(sh) IN
  [r.sh EXCEPT !.pending = r.sh.pending \cup
     {[owner |-> owner, serial |-> serial, size |-> size, crypto |-> r.ret]}]

\* ----------------------------------------------------- RngWithIntention
\* constructor spreading the options before the defaults:
\* { ...options, includeTimestamp: true, includeEntropy: true }
constructorDefaultsLast(o) ==
  [includeTimestamp |-> TRUE, includeEntropy |-> TRUE]

\* constructor: { includeTimestamp: true, includeEntropy: true, ...options }
constructor(o) ==
  [includeTimestamp |-> o["includeTimestamp"] # "false",
   includeEntropy |-> o["includeEntropy"] # "false"]

\* draw checking max before the intention
drawValidateMaxFirst(intention, max) ==
  IF ~IsInteger(max) \/ max.n <= 0 THEN "InvalidMax"
  ELSE IF Falsy(intention) \/ intention.t # "string" THEN "InvalidIntention"
  ELSE "none"

\* draw checking the sign of max only
drawValidateAnyPositive(intention, max) ==
  IF Falsy(intention) \/ intention.t # "string" THEN "InvalidIntention"
  ELSE IF max.t # "number" \/ max.n <= 0 THEN "InvalidMax"
  ELSE "none"

\* draw's two argument checks, in order
drawValidate(intention, max) ==
  IF Falsy(intention) \/ intention.t # "string" THEN "InvalidIntention"
  ELSE IF ~IsInteger(max) \/ max.n <= 0 THEN "InvalidMax"
  ELSE "none"

\* seedComponents with the timestamp pushed whatever the option says
seedComponentsAlwaysStamped(opts, intention, timestamp, entropy) ==
  <<intention, timestamp>>
  \o (IF opts.includeEntropy THEN <<bytesToHex(entropy)>> ELSE <<>>)

\* seedComponents as draw builds it; entropy is what randomBytes(16) returned
seedComponents(opts, intention, timestamp, entropy) ==
  <<intention>>
  \o (IF opts.includeTimestamp THEN <<timestamp>> ELSE <<>>)
  \o (IF opts.includeEntropy THEN <<bytesToHex(entropy)>> ELSE <<>>)

\* the index taken modulo max + 1
drawIndexInclusive(hash, max) == ModU32(readUInt32BE(hash, 0), max + 1)

\* the index taken from the first byte of the digest alone
drawIndexFirstByte(hash, max) == hash[1] % max

\* readUInt32BE(hash, 0) % max
drawIndex(hash, max) == ModU32(readUInt32BE(hash, 0), max)

\* drawMultiple checking the count only
drawMultipleValidateCountOnly(max, count, allowDuplicates) ==
  IF ~IsInteger(count) \/ count.n <= 0 THEN "InvalidCount"
  ELSE "none"

\* drawMultiple checking the domain before the count
drawMultipleValidateDomainFirst(max, count, allowDuplicates) ==
  IF ~allowDuplicates /\ Greater(count, max) THEN "DuplicateDomainExhausted"
  ELSE IF ~IsInteger(count) \/ count.n <= 0 THEN "InvalidCount"
  ELSE "none"

\* drawMultiple checking the domain whatever allowDuplicates says
drawMultipleValidateAlwaysUnique(max, count, allowDuplicates) ==
  IF ~IsInteger(count) \/ count.n <= 0 THEN "InvalidCount"
  ELSE IF Greater(count, max) THEN "DuplicateDomainExhausted"
  ELSE "none"

\* drawMultiple's two argument checks, in order
drawMultipleValidate(max, count, allowDuplicates) ==
  IF ~IsInteger(count) \/ count.n <= 0 THEN "InvalidCount"
  ELSE IF ~allowDuplicates /\ Greater(count, max) THEN "DuplicateDomainExhausted"
  ELSE "none"

\* a loop that stops one position early
morePositionsShort(i, count) == i < count - 1

\* for (let i = 0; i < count; i++)
morePositions(i, count) == i < count

\* indices.unshift(index): the index put in front
pushFront(indices, index) == <<index>> \o indices

\* indices.push(index)
push(indices, index) == Append(indices, index)

\* the loop allowing one retry more: attempts <= max * 2
retryNeededInclusive(used, index, attempts, max) ==
  index \in used /\ attempts <= max * RetryFactor

\* while (used.has(index) && attempts < max * 2)
retryNeeded(used, index, attempts, max) ==
  index \in used /\ attempts < max * RetryFactor

\* the sub-intention numbered from 1
modifiedIntentionOneBased(intention, i) ==
  JsToString(intention) \o Delim \o <<"d", "r", "a", "w">> \o NatToString(i + 1)

\* `${intention}::draw${i}`
modifiedIntention(intention, i) ==
  JsToString(intention) \o Delim \o <<"d", "r", "a", "w">> \o NatToString(i)
\* the retry sub-seed without the attempt number
retryIntentionFixed(modified, attempts) ==
  modified \o Delim \o <<"r", "e", "t", "r", "y">>

\* `${modifiedIntention}::retry${attempts}`
retryIntention(modified, attempts) ==
  modified \o Delim \o <<"r", "e", "t", "r", "y">> \o NatToString(attempts)

\* a call ends by throwing
Throw(f, kind) ==
  [f EXCEPT !.pc = "idle",
            !.result = [NoResult EXCEPT !.status = "error", !.error = kind]]

\* draw fetching its entropy before it checks its arguments
DrawEnterFetchFirst(f, intention, max, sh, time) ==
  LET g == [f EXCEPT !.nDraws = f.nDraws + 1, !.serial = f.serial + 1]
      v == drawValidate(intention, max)
      sh1 == IF options.includeEntropy
               THEN randomBytesCall("draw", g.serial, EntropySize, sh) ELSE sh
  IN
  IF v # "none" THEN [f |-> Throw(g, v), sh |-> sh1]
  ELSE
    LET timestamp == toISOString(time)
        seedString ==
          Join(seedComponents(options, intention.s, timestamp, PromiseObj), Delim)
        hs == tryLoadNodeCrypto(sh1)
    IN [f |-> [g EXCEPT !.pc = "sha256",
                        !.dIntention = intention.s, !.dMax = max.n,
                        !.dTimestamp = timestamp, !.seed = seedString,
                        !.crypto = hs.ret,
                        !.nHashes = g.nHashes + 1,
                        !.nEntropy = g.nEntropy +
                                     (IF options.includeEntropy THEN 1 ELSE 0)],
        sh |-> hs.sh]

\* draw(intention, max) from its entry to the suspension inside sha256
DrawEnter(f, intention, max, sh, time) ==
  LET g == [f EXCEPT !.nDraws = f.nDraws + 1, !.serial = f.serial + 1]
      v == drawValidate(intention, max)
  IN
  IF v # "none" THEN [f |-> Throw(g, v), sh |-> sh]
  ELSE
    LET timestamp == toISOString(time)
        sh1 == IF options.includeEntropy
                 THEN randomBytesCall("draw", g.serial, EntropySize, sh) ELSE sh
        entropy == PromiseObj
        seedString ==
          Join(seedComponents(options, intention.s, timestamp, entropy), Delim)
        hs == tryLoadNodeCrypto(sh1)
    IN [f |-> [g EXCEPT !.pc = "sha256",
                        !.dIntention = intention.s, !.dMax = max.n,
                        !.dTimestamp = timestamp, !.seed = seedString,
                        !.crypto = hs.ret,
                        !.nHashes = g.nHashes + 1,
                        !.nEntropy = g.nEntropy +
                                     (IF options.includeEntropy THEN 1 ELSE 0)],
        sh |-> hs.sh]

\* drawMultiple returning the timestamp of its last inner draw
LoopNextLastStamp(f, sh, time) ==
  IF morePositions(f.i, f.count)
    THEN DrawEnter([f EXCEPT !.inRetry = FALSE],
                   Str(modifiedIntention(args.intention, f.i)), args.max, sh, time)
    ELSE [f |-> [f EXCEPT !.pc = "idle",
                          !.result = [NoResult EXCEPT !.status = "ok",
                                                      !.indices = f.indices,
                                                      !.timestamp = f.dTimestamp]],
          sh |-> sh]

\* for (let i ...) of drawMultiple: the next position, or the return
LoopNext(f, sh, time) ==
  IF morePositions(f.i, f.count)
    THEN DrawEnter([f EXCEPT !.inRetry = FALSE],
                   Str(modifiedIntention(args.intention, f.i)), args.max, sh, time)
    ELSE [f |-> [f EXCEPT !.pc = "idle",
                          !.result = [NoResult EXCEPT !.status = "ok",
                                                      !.indices = f.indices,
                                                      !.timestamp = f.mTimestamp]],
          sh |-> sh]

\* the while loop of drawMultiple, entered with the position's current index
WhileNext(f, sh, time) ==
  IF retryNeeded(f.used, f.index, f.attempts, args.max.n)
    THEN DrawEnter([f EXCEPT !.inRetry = TRUE],
                   Str(retryIntention(modifiedIntention(args.intention, f.i), f.attempts)),
                   args.max, sh, time)
    ELSE LoopNext([f EXCEPT !.exhausted = f.exhausted \/ f.index \in f.used,
                            !.used = f.used \cup {f.index},
                            !.indices = push(f.indices, f.index),
                            !.retried = Append(f.retried, f.attempts),
                            !.byPos = Append(f.byPos, <<f.i, f.index>>),
                            !.i = f.i + 1],
                  sh, time)

\* drawMultiple running the duplicate-avoidance loop whatever
\* allowDuplicates says
DrawReturnAlwaysUnique(f, index, sh, time) ==
  IF f.op = "draw"
    THEN [f |-> [f EXCEPT !.pc = "idle",
                          !.result = [NoResult EXCEPT !.status = "ok",
                                                      !.index = index,
                                                      !.timestamp = f.dTimestamp]],
          sh |-> sh]
  ELSE IF ~f.inRetry
    THEN WhileNext([f EXCEPT !.attempts = 0, !.index = index], sh, time)
  ELSE WhileNext([f EXCEPT !.index = index, !.attempts = f.attempts + 1], sh, time)

\* draw returning the time of its return instead of the captured timestamp
DrawReturnStampedAtReturn(f, index, sh, time) ==
  IF f.op = "draw"
    THEN [f |-> [f EXCEPT !.pc = "idle",
                          !.result = [NoResult EXCEPT !.status = "ok",
                                                      !.index = index,
                                                      !.timestamp = toISOString(time)]],
          sh |-> sh]
  ELSE IF ~f.inRetry
    THEN IF args.allowDuplicates
           THEN LoopNext([f EXCEPT !.indices = push(f.indices, index),
                                   !.retried = Append(f.retried, 0),
                                   !.byPos = Append(f.byPos, <<f.i, index>>),
                                   !.i = f.i + 1], sh, time)
           ELSE WhileNext([f EXCEPT !.attempts = 0, !.index = index], sh, time)
  ELSE WhileNext([f EXCEPT !.index = index, !.attempts = f.attempts + 1], sh, time)

\* the caller of draw resumes with { index, timestamp }
DrawReturn(f, index, sh, time) ==
  IF f.op = "draw"
    THEN [f |-> [f EXCEPT !.pc = "idle",
                          !.result = [NoResult EXCEPT !.status = "ok",
                                                      !.index = index,
                                                      !.timestamp = f.dTimestamp]],
          sh |-> sh]
  ELSE IF ~f.inRetry
    THEN IF args.allowDuplicates
           THEN LoopNext([f EXCEPT !.indices = push(f.indices, index),
                                   !.retried = Append(f.retried, 0),
                                   !.byPos = Append(f.byPos, <<f.i, index>>),
                                   !.i = f.i + 1], sh, time)
           ELSE WhileNext([f EXCEPT !.attempts = 0, !.index = index], sh, time)
  ELSE WhileNext([f EXCEPT !.index = index, !.attempts = f.attempts + 1], sh, time)

\* ------------------------------------------------------------- the system
NoEntropy == [serial |-> 0, status |-> "none", bytes |-> <<>>]

Init ==
  /\ platform \in Platforms
  /\ args \in ArgInputs
  /\ nodeCrypto = "null"
  /\ nodeCryptoLoadAttempted = FALSE
  /\ importState = "idle"
  /\ importCount = 0
  /\ now = 0
  /\ digestOf = [s \in {} |-> <<>>]
  /\ given \in OptionInputs
  /\ options = constructor(given)
  /\ frame = EmptyFrame
  /\ pending = {}
  /\ entropyLog = NoEntropy
  /\ backendLog = {}
  /\ drawLog = {}
  /\ calls = 0
  /\ directs = 0

\* a synchronous segment ends in frame r.f and module state r.sh
Apply(r) ==
  /\ frame' = r.f
  /\ nodeCryptoLoadAttempted' = r.sh.attempted
  /\ importState' = r.sh.importState
  /\ importCount' = r.sh.importCount
  /\ pending' = r.sh.pending

\* the frame of a new call on the Rng instance
NewCall(op) ==
  LET done == frame.op = "drawMultiple" /\ frame.result.status = "ok" IN
  [EmptyFrame EXCEPT
     !.op = op, !.serial = frame.serial,
     !.prevCount = IF done THEN frame.count ELSE frame.prevCount,
     !.prevIndices = IF done THEN frame.result.indices ELSE frame.prevIndices]

\* SHA-256 of a string: a new seed gets any digest, a known one its digest
Hashes(data) == IF data \in DOMAIN digestOf THEN {digestOf[data]} ELSE Digests
Hashed(data, hash) ==
  [s \in DOMAIN digestOf \cup {data} |-> IF s = data THEN hash ELSE digestOf[s]]

\* the clock never runs backwards: a segment runs at some time from the
\* last reading on
Times == now..MaxClock

\* how many calls the caller makes on its Rng instance
CallLimit ==
  IF ~options.includeTimestamp /\ ~options.includeEntropy
    THEN MaxRepeat ELSE MaxCalls

\* the counts the caller asks for: its count, and under the deterministic
\* configuration also one position fewer when both requests are valid
CountChoices ==
  IF /\ ~options.includeTimestamp /\ ~options.includeEntropy
     /\ IsInteger(args.count) /\ args.count.n >= 2
     /\ IsInteger(args.max) /\ args.max.n >= 1
     /\ args.allowDuplicates \/ ~Greater(args.count, args.max)
    THEN {args.count, Num(args.count.n - 1)}
    ELSE {args.count}

\* rng.draw(intention, max), up to its first suspension
draw(intention, max, time) ==
  /\ frame.pc = "idle"
  /\ calls < CallLimit
  /\ calls' = calls + 1
  /\ now' = time
  /\ Apply(DrawEnter(NewCall("draw"), intention, max, Shared, time))
  /\ UNCHANGED <<platform, args, given, nodeCrypto, digestOf, options, entropyLog,
                 backendLog, drawLog, directs>>

\* rng.drawMultiple(intention, max, count, allowDuplicates), up to its
\* first suspension
drawMultiple(intention, max, count, allowDuplicates, time) ==
  /\ frame.pc = "idle"
  /\ calls < CallLimit
  /\ calls' = calls + 1
  /\ LET f == NewCall("drawMultiple")
         v == drawMultipleValidate(max, count, allowDuplicates)
     IN IF v # "none"
          THEN /\ now' = time
               /\ Apply([f |-> Throw(f, v), sh |-> Shared])
          ELSE \* the first inner draw reads the clock again, no earlier
               \E later \in time..MaxClock :
                 /\ now' = later
                 /\ Apply(LoopNext([f EXCEPT !.mTimestamp = toISOString(time),
                                             !.count = count.n],
                                   Shared, later))
  /\ UNCHANGED <<platform, args, given, nodeCrypto, digestOf, options, entropyLog,
                 backendLog, drawLog, directs>>

\* the draw in progress resumes inside sha256 after
\* `await tryLoadNodeCrypto()`, hashes the seed, maps it to an index and
\* returns; its caller runs on to the next suspension or to its return.
\* The randomBytes call of the same draw, unless it waits for the import,
\* was queued earlier and has resumed before.
sha256Resume(time) ==
  LET f == frame
      b == sha256Backend(Awaited(f.crypto))
  IN
  /\ f.pc = "sha256"
  /\ now' = time
  /\ f.crypto = "await" => importState = "done"
  /\ \A r \in pending : r.owner = "draw" => r.crypto = "await"
  /\ backendLog' = backendLog \cup {[fn |-> "sha256", backend |-> b]}
  /\ IF b = "none"
       THEN /\ Apply([f |-> Throw(f, "TypeError"), sh |-> Shared])
            /\ UNCHANGED <<digestOf, drawLog>>
       ELSE \E hash \in Hashes(f.seed) :
              LET index == drawIndex(hash, f.dMax) IN
              /\ digestOf' = Hashed(f.seed, hash)
              /\ drawLog' = drawLog \cup
                   {[call |-> calls, intention |-> f.dIntention,
                     max |-> f.dMax, seed |-> f.seed, index |-> index]}
              /\ Apply(DrawReturn(f, index, Shared, time))
  /\ UNCHANGED <<platform, args, given, nodeCrypto, options, entropyLog, calls, directs>>

\* the exported randomBytes(size) called directly, up to its suspension
randomBytes ==
  /\ directs < MaxDirect
  /\ ~nodeCryptoLoadAttempted \/ importState = "pending"
  /\ directs' = directs + 1
  /\ Apply([f |-> frame, sh |-> randomBytesCall("direct", 0, EntropySize, Shared)])
  /\ UNCHANGED <<platform, args, given, nodeCrypto, now, digestOf, options, entropyLog,
                 backendLog, drawLog, calls>>

\* a suspended randomBytes call (a draw never awaits its own) resumes after
\* `await tryLoadNodeCrypto()` and settles
randomBytesResume(r) ==
  LET b == randomBytesBackend(Awaited(r.crypto)) IN
  /\ r \in pending
  /\ r.crypto = "await" => importState = "done"
  /\ pending' = pending \ {r}
  /\ backendLog' = backendLog \cup {[fn |-> "randomBytes", backend |-> b]}
  /\ IF r.owner = "direct" THEN UNCHANGED entropyLog
     ELSE IF b = "none"
       THEN entropyLog' =
              [serial |-> r.serial, status |-> "rejected", bytes |-> <<>>]
       ELSE entropyLog' =
              [serial |-> r.serial, status |-> "fulfilled",
               bytes |-> FreshBytes(r.serial, r.size)]
  /\ UNCHANGED <<platform, args, given, nodeCrypto, nodeCryptoLoadAttempted, importState,
                 importCount, now, digestOf, options, frame, drawLog, calls,
                 directs>>

\* the dynamic import('node:crypto') settles; tryLoadNodeCrypto stores the
\* module (or leaves null in its catch)
importSettles ==
  /\ importState = "pending"
  /\ importState' = "done"
  /\ nodeCrypto' = IF platform.node = "ok" THEN "module" ELSE "null"
  /\ UNCHANGED <<platform, args, given, nodeCryptoLoadAttempted, importCount, now, digestOf,
                 options, frame, pending, entropyLog, backendLog, drawLog,
                 calls, directs>>

Next ==
  \/ \E time \in Times : draw(args.intention, args.max, time)
  \/ \E time \in Times : \E count \in CountChoices :
       drawMultiple(args.intention, args.max, count, args.allowDuplicates, time)
  \/ \E time \in Times : sha256Resume(time)
  \/ randomBytes
  \/ \E r \in pending : randomBytesResume(r)
  \/ importSettles

Spec == Init /\ [][Next]_vars

\* ------------------------------------------------------------ properties
Deterministic == ~options.includeTimestamp /\ ~options.includeEntropy
Returned == frame.pc = "idle" /\ frame.result.status = "ok"
Failed == frame.pc = "idle" /\ frame.result.status = "error"
ValidCount == IsInteger(args.count) /\ args.count.n > 0
\* a non-empty text
ValidIntention == args.intention.t = "string" /\ Len(args.intention.s) > 0
\* a positive integer
ValidMax == args.max.t = "number" /\ args.max.d = 1 /\ args.max.n >= 1
\* the errors the argument checks of draw and drawMultiple raise
ValidationErrors ==
  {"InvalidIntention", "InvalidMax", "InvalidCount", "DuplicateDomainExhausted"}
\* the millisecond field of an ISO-8601 timestamp, as Date.parse reads it
DigitValue(c) == CHOOSE k \in 0..9 : DigitChar(k) = c
parseMillis(ts) ==
  100 * DigitValue(ts[21]) + 10 * DigitValue(ts[22]) + DigitValue(ts[23])
\* sub occurs in str as a contiguous substring
Occurs(sub, str) ==
  \E k \in 1..(Len(str) - Len(sub) + 1) : SubSeq(str, k, k + Len(sub) - 1) = sub
\* the last n characters of a string
Suffix(str, n) ==
  IF Len(str) < n THEN str ELSE SubSeq(str, Len(str) - n + 1, Len(str))
\* what `await tryLoadNodeCrypto()` gives once the probe has completed
SettledCrypto == IF platform.node = "ok" THEN "module" ELSE "null"

\* C1: every draw that returns a result, under every configuration, returns
\* an index with 0 <= index < max.
C1_Range ==
  /\ \A d \in drawLog : 0 <= d.index /\ d.index < d.max
  /\ (frame.op = "draw" /\ Returned) =>
       (0 <= frame.result.index /\ frame.result.index < args.max.n)
C1_Witness ==
  /\ frame.op = "draw" /\ Returned
  /\ options.includeTimestamp /\ options.includeEntropy
  /\ args.max.n > 1 /\ frame.result.index = args.max.n - 1

\* C2: under the deterministic configuration two draws with the same
\* intention and the same max return the same index, whatever the clock,
\* the state of the probe cache and the calls made before.
C2_Deterministic ==
  Deterministic =>
    \A a, b \in drawLog :
      (a.intention = b.intention /\ a.max = b.max) => a.index = b.index
C2_Witness ==
  /\ Deterministic
  /\ now > 0
  /\ \E a, b \in drawLog :
       /\ a.call # b.call
       /\ a.intention = b.intention /\ a.max = b.max /\ a.max > 1

\* C3: a drawMultiple call with allowDuplicates = false and count <= max
\* that returns a result returns pairwise distinct indices.
C3_AllDistinct ==
  (frame.op = "drawMultiple" /\ Returned /\ ~args.allowDuplicates) =>
    \A j, k \in 1..Len(frame.result.indices) :
      j # k => frame.result.indices[j] # frame.result.indices[k]

\* C4: when a position has used up its max * 2 retries and its index is
\* still a used one, drawMultiple fails with DuplicateExhaustionError.
C4_ExhaustionFails ==
  (frame.op = "drawMultiple" /\ frame.exhausted) =>
    (frame.pc = "idle" =>
       /\ frame.result.status = "error"
       /\ frame.result.error = "DuplicateExhaustion")

\* C5: a drawMultiple call that returns has exactly count indices, in
\* request order, each in [0, max); a call that fails returns no indices.
C5_AllOrNothing ==
  frame.op = "drawMultiple" =>
    /\ Returned =>
         /\ Len(frame.result.indices) = frame.count
         /\ Len(frame.byPos) = frame.count
         /\ frame.count \in {c.n : c \in CountChoices}
         /\ \A k \in 1..Len(frame.result.indices) :
              /\ frame.byPos[k] = <<k - 1, frame.result.indices[k]>>
              /\ 0 <= frame.result.indices[k]
              /\ frame.result.indices[k] < args.max.n
    /\ ~Returned => frame.result.indices = <<>>
C5_Witness ==
  /\ frame.op = "drawMultiple" /\ Returned
  /\ Len(frame.result.indices) = 2
  /\ frame.result.indices[1] # frame.result.indices[2]

\* C6: callers of randomBytes / sha256 racing on the first probe all use
\* the backend the completed probe selects; none sees the half-initialised
\* cache and takes another backend or fails.
C6_Converges ==
  \A e \in backendLog :
    e.backend = (IF e.fn = "randomBytes" THEN randomBytesBackend(SettledCrypto)
                 ELSE sha256Backend(SettledCrypto))

\* C7: the dynamic import of node:crypto is executed at most once, a
\* completed probe (successful or failed) is never repeated and its cached
\* outcome never changes.
C7_ProbeOnce ==
  /\ [](importCount <= 1)
  /\ [][importState = "done" =>
          /\ importState' = "done"
          /\ nodeCrypto' = nodeCrypto
          /\ nodeCryptoLoadAttempted'
          /\ importCount' = importCount]_vars
C7_Witness ==
  /\ platform.node = "fails" /\ importState = "done"
  /\ ~options.includeEntropy /\ directs = 0
  /\ frame.pc = "sha256" /\ frame.nHashes >= 2

\* C8: with includeEntropy the seed of a draw ends with the hex encoding
\* (32 characters) of the 16 bytes its own randomBytes call obtained.
C8_EntropyInSeed ==
  (/\ options.includeEntropy
   /\ frame.serial > 0 /\ frame.seed # <<>>
   /\ entropyLog.serial = frame.serial
   /\ entropyLog.status = "fulfilled") =>
    /\ Len(entropyLog.bytes) = EntropySize
    /\ Suffix(frame.seed, 2 * EntropySize) = bytesToHex(Bytes(entropyLog.bytes))

\* C9: with includeEntropy on a platform without any entropy backend no
\* call returns a result.
C9_NoSilentDowngrade ==
  (/\ options.includeEntropy
   /\ randomBytesBackend(SettledCrypto) = "none") =>
    ~Returned \/ frame.op = "none"

\* C10: drawMultiple with allowDuplicates = false and count > max fails
\* with DuplicateDomainExhaustedError before any draw: no draw invocation,
\* no hash, no entropy fetch, no result.
C10_DomainCheckFirst ==
  (/\ frame.op = "drawMultiple"
   /\ ~args.allowDuplicates /\ ValidCount /\ Greater(args.count, args.max)) =>
    /\ Failed
    /\ frame.result.error = "DuplicateDomainExhausted"
    /\ frame.nDraws = 0 /\ frame.nHashes = 0 /\ frame.nEntropy = 0
C10_Witness ==
  /\ frame.op = "drawMultiple" /\ Failed
  /\ ~args.allowDuplicates /\ args.count = Num(2) /\ args.max = Num(1)
  /\ frame.result.error = "DuplicateDomainExhausted"
  /\ options.includeEntropy

\* C11: drawMultiple with a count that is missing, non-integer, zero or
\* negative fails with InvalidCountError; the count check comes first, so
\* no draw is performed and no other validation error is reported.
C11_CountCheckedFirst ==
  (frame.op = "drawMultiple" /\ ~ValidCount) =>
    /\ Failed
    /\ frame.result.error = "InvalidCount"
    /\ frame.result.indices = <<>>
    /\ frame.nDraws = 0 /\ frame.nHashes = 0 /\ frame.nEntropy = 0
C11_Witness ==
  /\ frame.op = "drawMultiple" /\ Failed
  /\ frame.result.error = "InvalidCount"
  /\ args.count = Half(3) /\ args.max = Num(1) /\ ~args.allowDuplicates
  /\ args.intention = Str(<<>>)

\* C12: draw with an intention that is missing, empty or not text fails
\* with InvalidIntentionError and returns no result, whatever max is (the
\* intention check precedes the max check).
C12_IntentionChecked ==
  (frame.op = "draw" /\ ~ValidIntention) =>
    /\ Failed
    /\ frame.result.error = "InvalidIntention"
    /\ frame.nHashes = 0
C12_Witness ==
  /\ frame.op = "draw" /\ Failed
  /\ frame.result.error = "InvalidIntention"
  /\ args.intention = Str(<<>>) /\ args.max = Num(0)

\* C13: draw with a valid intention and a max that is missing, non-integer,
\* zero or negative fails with InvalidMaxError and returns no result.
C13_MaxChecked ==
  (frame.op = "draw" /\ ValidIntention /\ ~ValidMax) =>
    /\ Failed
    /\ frame.result.error = "InvalidMax"
    /\ frame.nHashes = 0
C13_Witness ==
  /\ frame.op = "draw" /\ Failed
  /\ frame.result.error = "InvalidMax"
  /\ args.intention = Str(<<"x">>) /\ args.max = Half(3)

\* C14: drawMultiple with an intention that is missing, empty or not text,
\* and a valid max and count, fails with InvalidIntentionError and returns
\* no indices (on a platform where the hash has a backend).
C14_IntentionCheckedInMultiple ==
  (/\ frame.op = "drawMultiple" /\ frame.pc = "idle"
   /\ ~ValidIntention /\ ValidMax /\ ValidCount
   /\ args.allowDuplicates \/ ~Greater(args.count, args.max)
   /\ platform.webSubtle) =>
    /\ Failed
    /\ frame.result.error = "InvalidIntention"
    /\ frame.result.indices = <<>>

\* C15 as claimed: drawMultiple with a valid count and a max that is
\* missing, non-integer, zero or negative fails with InvalidMaxError for
\* either value of allowDuplicates.
C15_InvalidMaxInMultiple ==
  (frame.op = "drawMultiple" /\ ValidCount /\ ~ValidMax) =>
    /\ Failed
    /\ frame.result.error = "InvalidMax"
    /\ frame.result.indices = <<>>

\* C15 amended: drawMultiple with a valid count and a max that is missing,
\* non-integer, zero or negative returns no indices and fails with
\* DuplicateDomainExhaustedError when allowDuplicates is false and
\* count > max, and with InvalidMaxError otherwise, before anything is
\* hashed.
C15_MaxOrDomain ==
  (frame.op = "drawMultiple" /\ ValidCount /\ ~ValidMax) =>
    /\ Failed
    /\ frame.result.error =
         (IF ~args.allowDuplicates /\ Greater(args.count, args.max)
            THEN "DuplicateDomainExhausted" ELSE "InvalidMax")
    /\ frame.result.indices = <<>>
    /\ frame.nHashes = 0 /\ frame.nEntropy = 0
C15_Witness ==
  /\ frame.op = "drawMultiple" /\ Failed
  /\ frame.result.error = "InvalidMax"
  /\ ~args.allowDuplicates /\ args.count = Num(1) /\ args.max = Half(3)
  /\ frame.nDraws = 1

\* C16: a draw or drawMultiple call rejected by validation is rejected in
\* the step that makes the call, before any suspension: it puts no
\* timestamp in a result, fetches no entropy, hashes nothing and starts no
\* probe, and leaves the probe cache and the instance as they were.
C16_RejectionIsPure ==
  /\ []((Failed /\ frame.result.error \in ValidationErrors) =>
          /\ frame.nHashes = 0 /\ frame.nEntropy = 0
          /\ frame.result.timestamp = <<>>
          /\ frame.result.indices = <<>>)
  /\ [][(calls' # calls
          /\ frame'.result.status = "error"
          /\ frame'.result.error \in ValidationErrors) =>
          /\ frame'.pc = "idle"
          /\ nodeCrypto' = nodeCrypto
          /\ nodeCryptoLoadAttempted' = nodeCryptoLoadAttempted
          /\ importState' = importState
          /\ importCount' = importCount
          /\ pending' = pending
          /\ backendLog' = backendLog
          /\ digestOf' = digestOf
          /\ options' = options]_vars
C16_Witness ==
  /\ frame.op = "drawMultiple" /\ Failed
  /\ frame.result.error = "InvalidMax" /\ frame.nDraws = 1
  /\ options.includeEntropy
  /\ ~nodeCryptoLoadAttempted /\ importCount = 0 /\ pending = {}

\* C17: includeTimestamp and includeEntropy are true when the options
\* object omits them and the supplied value otherwise, and stay so across
\* every draw / drawMultiple call, successful or failing.
C17_ConfigurationFixed ==
  \A k \in {"includeTimestamp", "includeEntropy"} :
    options[k] = (IF given[k] = "absent" THEN TRUE ELSE given[k] = "true")
C17_Witness ==
  /\ given["includeTimestamp"] = "absent" /\ given["includeEntropy"] = "false"
  /\ options.includeTimestamp /\ ~options.includeEntropy
  /\ calls = MaxCalls /\ frame.op = "drawMultiple" /\ Returned
  /\ Len(frame.result.indices) = 2

\* C18: drawMultiple captures its timestamp once, when the call starts and
\* only after the count and domain checks; that timestamp is not later
\* than the timestamp of any inner draw, it is the one the result carries,
\* and the timestamps of the positions and retries never reach the result.
C18_SharedTimestamp ==
  /\ []((frame.op = "drawMultiple" /\ frame.dTimestamp # <<>>) =>
          parseMillis(frame.mTimestamp) <= parseMillis(frame.dTimestamp))
  /\ []((frame.op = "drawMultiple" /\ Returned) =>
          frame.result.timestamp = frame.mTimestamp)
  /\ []((frame.op = "drawMultiple"
          /\ frame.result.error \in {"InvalidCount", "DuplicateDomainExhausted"}) =>
          frame.mTimestamp = <<>>)
  /\ [][(calls' # calls /\ frame'.op = "drawMultiple"
          /\ frame'.result.error \notin {"InvalidCount", "DuplicateDomainExhausted"}) =>
          /\ now <= parseMillis(frame'.mTimestamp)
          /\ parseMillis(frame'.mTimestamp) <= now']_vars
  /\ [][(calls' = calls /\ frame.op = "drawMultiple") =>
          frame'.mTimestamp = frame.mTimestamp]_vars
C18_Witness ==
  /\ frame.op = "drawMultiple" /\ Returned
  /\ Len(frame.result.indices) = 2 /\ calls = 1
  /\ parseMillis(frame.result.timestamp) < parseMillis(frame.dTimestamp)

C20_SeedComposition ==
  (/\ frame.seed # <<>>
   /\ options.includeEntropy =>
        (entropyLog.serial = frame.serial /\ entropyLog.status = "fulfilled")) =>
    frame.seed =
      Join(<<frame.dIntention>>
           \o (IF options.includeTimestamp THEN <<frame.dTimestamp>> ELSE <<>>)
           \o (IF options.includeEntropy
                 THEN <<bytesToHex(Bytes(entropyLog.bytes))>> ELSE <<>>),
           Delim)

\* C21: readUInt32BE gives the first four digest bytes as the unsigned
\* big-endian value b0*2^24 + b1*2^16 + b2*2^8 + b3, in [0, 2^32 - 1] also
\* when b0 >= 128 (on sample bytes, evaluated before the first call, and
\* on every digest drawn), and the index of every draw is that value
\* modulo max.
C21_RangeMapping ==
  /\ calls = 0 =>
       \A b0 \in {0, 127, 128, 255} : \A b1, b2, b3 \in {0, 255} :
         readUInt32BE(<<b0, b1, b2, b3>>, 0) = U32(b0 * 256 + b1, b2 * 256 + b3)
  /\ \A d \in drawLog :
    LET hash == digestOf[d.seed]
        v == readUInt32BE(hash, 0)
    IN /\ v.hi = hash[1] * 256 + hash[2] /\ v.lo = hash[3] * 256 + hash[4]
       /\ 0 <= v.hi /\ v.hi <= 65535 /\ 0 <= v.lo /\ v.lo <= 65535
       /\ d.index = (hash[1] * (16777216 % d.max) + hash[2] * (65536 % d.max)
                      + hash[3] * (256 % d.max) + hash[4]) % d.max
C21_Witness ==
  \E d \in drawLog :
    /\ digestOf[d.seed][1] >= 128
    /\ d.max = 2 /\ d.index = 1 /\ d.call = 1

\* C23: positions are taken in increasing order and the first draw of
\* position i is draw('<intention>::draw<i>', max); so with
\* allowDuplicates = true under the deterministic configuration
\* indices[i] is the index draw gives '<intention>::draw<i>'.
C23_PerPosition ==
  /\ (frame.op = "drawMultiple" /\ frame.pc = "sha256" /\ ~frame.inRetry) =>
       /\ frame.i = Len(frame.indices)
       /\ frame.dIntention =
            JsToString(args.intention)
            \o <<":", ":", "d", "r", "a", "w", DigitChar(frame.i)>>
       /\ frame.dMax = args.max.n
  /\ (frame.op = "drawMultiple" /\ Returned
      /\ args.allowDuplicates /\ Deterministic) =>
       \A k \in 1..Len(frame.result.indices) :
         LET sub == JsToString(args.intention)
                    \o <<":", ":", "d", "r", "a", "w", DigitChar(k - 1)>>
         IN /\ sub \in DOMAIN digestOf
            /\ frame.result.indices[k] = drawIndex(digestOf[sub], args.max.n)
C23_Witness ==
  /\ frame.op = "drawMultiple" /\ Returned
  /\ args.allowDuplicates /\ Deterministic
  /\ args.intention = Str(<<"x">>) /\ frame.count = 2
  /\ frame.result.indices = <<1, 0>>

\* C24: a retry is made only when allowDuplicates = false and the
\* position's current index is already used; the k-th retry of position i
\* (k = 0, 1, ...) is draw('<intention>::draw<i>::retry<k>', max); a
\* position stops at the first index not yet used and makes at most
\* max * 2 retries.
C24_RetryProtocol ==
  /\ []((frame.op = "drawMultiple" /\ frame.pc = "sha256" /\ frame.inRetry) =>
          /\ ~args.allowDuplicates
          /\ frame.index \in frame.used
          /\ frame.attempts < 2 * args.max.n
          /\ frame.dMax = args.max.n
          /\ frame.dIntention =
               JsToString(args.intention)
               \o <<":", ":", "d", "r", "a", "w", DigitChar(frame.i)>>
               \o <<":", ":", "r", "e", "t", "r", "y", DigitChar(frame.attempts)>>)
  /\ [](frame.op = "drawMultiple" =>
          \A k \in 1..Len(frame.retried) :
            /\ frame.retried[k] <= 2 * args.max.n
            /\ args.allowDuplicates => frame.retried[k] = 0
            /\ (~args.allowDuplicates /\ frame.retried[k] < 2 * args.max.n) =>
                 \A j \in 1..(k - 1) : frame.indices[j] # frame.indices[k])
  /\ [][(frame.op = "drawMultiple" /\ frame'.op = "drawMultiple"
          /\ calls' = calls /\ frame' # frame
          /\ frame'.pc = "sha256" /\ frame'.inRetry) =>
          frame'.attempts = IF frame.inRetry THEN frame.attempts + 1 ELSE 0]_vars
C24_Witness ==
  /\ frame.op = "drawMultiple" /\ frame.pc = "sha256" /\ frame.inRetry
  /\ args.max = Num(2) /\ frame.i = 1
  /\ frame.attempts = 3

\* C25: every randomBytes call is served by the Node crypto module when
\* that module is available, by the web secure-random API only when it is
\* not, and fails (always) when neither exists.
C25_FallbackOrder ==
  \A e \in backendLog :
    e.fn = "randomBytes" =>
      e.backend = (IF platform.node = "ok" THEN "node"
                   ELSE IF platform.webRandom THEN "web" ELSE "none")

\* C26: a draw captures one timestamp, when it is called, and a
\* successful draw returns that timestamp under every configuration; with
\* includeTimestamp it is the second component of the seed, without it
\* the seed (hence the index) contains no clock reading.
C26_OneTimestamp ==
  /\ []((frame.op = "draw" /\ Returned) =>
          frame.result.timestamp = frame.dTimestamp)
  /\ []((frame.op = "draw" /\ frame.seed # <<>>) =>
          LET head == frame.dIntention \o Delim \o frame.dTimestamp IN
          IF options.includeTimestamp
            THEN /\ Len(frame.seed) >= Len(head)
                 /\ SubSeq(frame.seed, 1, Len(head)) = head
                 /\ \/ Len(frame.seed) = Len(head)
                    \/ SubSeq(frame.seed, Len(head) + 1, Len(head) + 2) = Delim
            ELSE \A ms \in 0..MaxClock : ~Occurs(toISOString(ms), frame.seed))
  /\ [][(calls' # calls /\ frame'.op = "draw" /\ frame'.pc = "sha256") =>
          frame'.dTimestamp = toISOString(now')]_vars
  /\ [][(calls' = calls /\ frame.op = "draw") =>
          frame'.dTimestamp = frame.dTimestamp]_vars
C26_Witness ==
  /\ frame.op = "draw" /\ Returned
  /\ ~options.includeTimestamp /\ options.includeEntropy
  /\ parseMillis(frame.result.timestamp) < now

\* C27: a drawMultiple call with valid arguments makes at most
\* count * (1 + 2 * max) draw invocations, and every resumption of the
\* call either ends it or starts exactly one more draw, so it terminates
\* when each draw does; with allowDuplicates = true it makes exactly count
\* draws; position 0 never retries; a draw call hashes exactly once.
C27_DrawBudget ==
  /\ []((frame.op = "drawMultiple" /\ frame.count > 0 /\ ValidMax) =>
          /\ frame.nDraws <= frame.count * (1 + 2 * args.max.n)
          /\ frame.nHashes = frame.nDraws
          /\ (Returned /\ args.allowDuplicates) => frame.nDraws = frame.count
          /\ Len(frame.retried) >= 1 => frame.retried[1] = 0)
  /\ [](frame.op = "draw" =>
          /\ frame.nDraws = 1 /\ frame.nHashes <= 1
          /\ Returned => frame.nHashes = 1)
  /\ [][(frame.op = "drawMultiple" /\ frame.pc = "sha256" /\ frame' # frame) =>
          \/ frame'.pc = "idle"
          \/ frame'.pc = "sha256" /\ frame'.nDraws = frame.nDraws + 1]_vars
C27_Witness ==
  /\ frame.op = "drawMultiple" /\ Returned
  /\ ~args.allowDuplicates /\ args.max = Num(2) /\ frame.count = 2
  /\ frame.nDraws = 6

\* C28: within one drawMultiple call every draw invocation receives an
\* intention string no earlier draw of the call received, and under the
\* deterministic configuration a seed no earlier draw of the call hashed.
C28_DistinctIntentions ==
  (frame.op = "drawMultiple" /\ frame.pc = "sha256") =>
    LET earlier == {d \in drawLog : d.call = calls} IN
    /\ frame.dIntention \notin {d.intention : d \in earlier}
    /\ Deterministic => frame.seed \notin {d.seed : d \in earlier}
    /\ Cardinality({d.intention : d \in earlier}) = frame.nDraws - 1
C28_Witness ==
  /\ frame.op = "drawMultiple" /\ frame.pc = "sha256" /\ Deterministic
  /\ frame.inRetry /\ frame.attempts = 2
  /\ Cardinality({d \in drawLog : d.call = calls}) = 4

\* C29: in a fresh process whose only crypto backend is the loadable Node
\* crypto module, the first draw with the default configuration succeeds
\* and its hash is computed by the Node backend.
C29_FreshNodeFirstDraw ==
  (/\ platform.node = "ok" /\ ~platform.webRandom /\ ~platform.webSubtle
   /\ options.includeTimestamp /\ options.includeEntropy
   /\ ValidIntention /\ ValidMax
   /\ frame.op = "draw" /\ calls = 1 /\ directs = 0
   /\ frame.pc = "idle") =>
    /\ Returned
    /\ \A e \in backendLog : e.fn = "sha256" => e.backend = "node"

\* C30: under the deterministic configuration, with the same intention,
\* max and allowDuplicates, the indices of drawMultiple with count n are
\* the first n indices of drawMultiple with count n + 1.
C30_PrefixStability ==
  (/\ frame.op = "drawMultiple" /\ Returned /\ Deterministic
   /\ frame.prevCount > 0) =>
    /\ frame.prevCount = frame.count + 1 =>
         frame.result.indices = SubSeq(frame.prevIndices, 1, frame.count)
    /\ frame.count = frame.prevCount + 1 =>
         frame.prevIndices = SubSeq(frame.result.indices, 1, frame.prevCount)
    /\ frame.count = frame.prevCount =>
         frame.prevIndices = frame.result.indices
C30_Witness ==
  /\ frame.op = "drawMultiple" /\ Returned /\ Deterministic
  /\ ~args.allowDuplicates
  /\ frame.prevCount = 2 /\ frame.count = 1
  /\ frame.prevIndices[1] # frame.prevIndices[2]

====
